---- MODULE Spec2Model ----
(***************************************************************************)
(* A model of src/validate.js: the validator registry, validateField,      *)
(* validate, displayError, the marker dismissal handlers and the           *)
(* data-submitter click binding.                                           *)
(*                                                                         *)
(* A JavaScript string is a tuple of one-character strings, so that the    *)
(* regular expressions, String.prototype.split and the numeric coercion    *)
(* are computed character by character.  A JavaScript value is a record    *)
(* [t, s]: t is "string", "null" or "undefined", s the characters.         *)
(***************************************************************************)
EXTENDS Integers, Sequences, FiniteSets

(***************************************************************************)
(* JavaScript values                                                       *)
(***************************************************************************)
Undefined == [t |-> "undefined", s |-> <<>>]
Null == [t |-> "null", s |-> <<>>]
Str(s) == [t |-> "string", s |-> s]

\* String(v), as RegExp.prototype.test applies it to its argument
StringOf(v) ==
    IF v.t = "string" THEN v.s
    ELSE IF v.t = "null" THEN <<"n", "u", "l", "l">>
    ELSE <<"u", "n", "d", "e", "f", "i", "n", "e", "d">>

\* !v
Falsy(v) == v.t # "string" \/ v.s = <<>>

\* a == b for strings, null and undefined
LooseEq(a, b) ==
    IF a.t = "string" /\ b.t = "string" THEN a.s = b.s
    ELSE a.t # "string" /\ b.t # "string"

\* a === b
StrictEq(a, b) == a.t = b.t /\ (a.t = "string" => a.s = b.s)

(***************************************************************************)
(* Character classes of the regular expressions                            *)
(***************************************************************************)
Digit == {"0", "1", "2", "3", "4", "5", "6", "7", "8", "9"}
Lower == {"a", "b", "c", "d", "e", "f", "g", "h", "i", "j", "k", "l", "m",
          "n", "o", "p", "q", "r", "s", "t", "u", "v", "w", "x", "y", "z"}
Upper == {"A", "B", "C", "D", "E", "F", "G", "H", "I", "J", "K", "L", "M",
          "N", "O", "P", "Q", "R", "S", "T", "U", "V", "W", "X", "Y", "Z"}
Letter == Lower \cup Upper
\* \s, restricted to the white space a form value can hold
Space == {" ", "\t", "\n", "\r"}
\* what . does not match
LineTerminator == {"\n", "\r"}

AllIn(s, class) == \A i \in 1..Len(s) : s[i] \in class
Tail2(s, i) == SubSeq(s, i, Len(s))

\* the index of the first occurrence of character c in s, 0 when there is none
IndexOf(s, c) ==
    IF \E i \in 1..Len(s) : s[i] = c
    THEN CHOOSE i \in 1..Len(s) : s[i] = c /\ \A j \in 1..(i - 1) : s[j] # c
    ELSE 0

RECURSIVE Split(_, _)
\* s.split(c): "" gives [""], "a,b" gives ["a", "b"], "," gives ["", ""]
Split(s, c) ==
    LET i == IndexOf(s, c) IN
    IF i = 0 THEN <<s>>
    ELSE <<SubSeq(s, 1, i - 1)>> \o Split(Tail2(s, i + 1), c)

(***************************************************************************)
(* validator.email: the regular expression of line 44                      *)
(***************************************************************************)
\* [^<>()[\]\\.,;:\s@\"]
AtomChar(c) ==
    c \notin ({"<", ">", "(", ")", "[", "]", "\\", ".", ",", ";", ":", "@", "\""}
              \cup Space)

\* [^<>()...]+(\.[^<>()...]+)*
DottedAtom(s) ==
    LET parts == Split(s, ".") IN
    \A k \in 1..Len(parts) :
        /\ Len(parts[k]) >= 1
        /\ \A i \in 1..Len(parts[k]) : AtomChar(parts[k][i])

\* \".+\"
QuotedLocal(s) ==
    /\ Len(s) >= 3
    /\ s[1] = "\""
    /\ s[Len(s)] = "\""
    /\ \A i \in 2..(Len(s) - 1) : s[i] \notin LineTerminator

\* \[[0-9]{1,3}\.[0-9]{1,3}\.[0-9]{1,3}\.[0-9]{1,3}\]
BracketedIp(s) ==
    /\ Len(s) >= 2
    /\ s[1] = "["
    /\ s[Len(s)] = "]"
    /\ LET parts == Split(SubSeq(s, 2, Len(s) - 1), ".") IN
       /\ Len(parts) = 4
       /\ \A k \in 1..4 : Len(parts[k]) \in 1..3 /\ AllIn(parts[k], Digit)

\* ([a-zA-Z\-0-9]+\.)+[a-zA-Z]{2,}
DomainName(s) ==
    LET parts == Split(s, ".") IN
    /\ Len(parts) >= 2
    /\ \A k \in 1..(Len(parts) - 1) :
          Len(parts[k]) >= 1 /\ AllIn(parts[k], Letter \cup Digit \cup {"-"})
    /\ Len(parts[Len(parts)]) >= 2
    /\ AllIn(parts[Len(parts)], Letter)

\* re.test(s) for the whole pattern ^(local)@(domain)$
EmailRe(s) ==
    \E i \in 1..Len(s) :
        /\ s[i] = "@"
        /\ LET local == SubSeq(s, 1, i - 1)
               domain == Tail2(s, i + 1)
           IN /\ DottedAtom(local) \/ QuotedLocal(local)
              /\ BracketedIp(domain) \/ DomainName(domain)

(***************************************************************************)
(* validator.creditCard: the regular expression of line 78                 *)
(***************************************************************************)
StartsWith(s, p) == Len(s) >= Len(p) /\ SubSeq(s, 1, Len(p)) = p

CreditCardRe(s) ==
    /\ Len(s) >= 1
    /\ AllIn(s, Digit)
    /\ \/ StartsWith(s, <<"4">>) /\ Len(s) \in {13, 16}
       \/ Len(s) = 16 /\ s[1] = "5" /\ s[2] \in {"1", "2", "3", "4", "5"}
       \/ Len(s) = 16 /\ StartsWith(s, <<"6", "0", "1", "1">>)
       \/ Len(s) = 16 /\ StartsWith(s, <<"6", "5">>)
       \/ Len(s) = 15 /\ s[1] = "3" /\ s[2] \in {"4", "7"}
       \/ Len(s) = 14 /\ StartsWith(s, <<"3", "0">>)
                      /\ s[3] \in {"0", "1", "2", "3", "4", "5"}
       \/ Len(s) = 14 /\ s[1] = "3" /\ s[2] \in {"6", "8"}
       \/ Len(s) = 15 /\ StartsWith(s, <<"2", "1", "3", "1">>)
       \/ Len(s) = 15 /\ StartsWith(s, <<"1", "8", "0", "0">>)
       \/ Len(s) = 16 /\ StartsWith(s, <<"3", "5">>)

\* the literal of line 81
TestCard ==
    <<"4", "5", "6", "7", "4", "5", "6", "7", "4", "5", "6", "7", "4", "5", "6", "7">>

(***************************************************************************)
(* validator.cvv and validator.string: lines 95 and 65                     *)
(***************************************************************************)
\* /^\d{3,4}$/
CvvRe(s) == Len(s) \in {3, 4} /\ AllIn(s, Digit)

\* /\d/
HasDigit(s) == \E i \in 1..Len(s) : s[i] \in Digit

(***************************************************************************)
(* validator.positive: +value of line 99, as "nan", "neg" (below zero) or  *)
(* "nonneg" (zero, minus zero or above zero)                               *)
(***************************************************************************)
RECURSIVE TrimLeft(_)
TrimLeft(s) == IF Len(s) >= 1 /\ s[1] \in Space THEN TrimLeft(Tail(s)) ELSE s

RECURSIVE TrimRight(_)
TrimRight(s) ==
    IF Len(s) >= 1 /\ s[Len(s)] \in Space
    THEN TrimRight(SubSeq(s, 1, Len(s) - 1))
    ELSE s

\* DecimalDigits [. DecimalDigits] or . DecimalDigits
Mantissa(s) ==
    LET parts == Split(s, ".") IN
    /\ Len(parts) \in {1, 2}
    /\ \A k \in 1..Len(parts) : AllIn(parts[k], Digit)
    /\ \E k \in 1..Len(parts) : Len(parts[k]) >= 1

\* [+-] DecimalDigits after the e
Exponent(s) ==
    LET d == IF Len(s) >= 1 /\ s[1] \in {"+", "-"} THEN Tail(s) ELSE s IN
    Len(d) >= 1 /\ AllIn(d, Digit)

\* the position of the exponent indicator, 0 when there is none
ExpAt(s) ==
    LET e == IndexOf(s, "e")
        E == IndexOf(s, "E")
    IN IF e = 0 THEN E ELSE IF E = 0 THEN e ELSE IF e < E THEN e ELSE E

Infinity == <<"I", "n", "f", "i", "n", "i", "t", "y">>

\* an unsigned StrDecimalLiteral
UnsignedDecimal(s) ==
    \/ s = Infinity
    \/ LET x == ExpAt(s) IN
       IF x = 0 THEN Mantissa(s)
       ELSE Mantissa(SubSeq(s, 1, x - 1)) /\ Exponent(Tail2(s, x + 1))

\* whether an unsigned StrDecimalLiteral is above zero (a short literal does
\* not underflow to zero)
NonZero(s) ==
    \/ s = Infinity
    \/ LET x == ExpAt(s)
           m == IF x = 0 THEN s ELSE SubSeq(s, 1, x - 1)
       IN \E i \in 1..Len(m) : m[i] \in (Digit \ {"0"})

\* 0x and 0X HexDigits: never signed, never NaN when well formed
HexLiteral(s) ==
    /\ Len(s) >= 3
    /\ s[1] = "0"
    /\ s[2] \in {"x", "X"}
    /\ AllIn(Tail2(s, 3), Digit \cup {"a", "b", "c", "d", "e", "f",
                                      "A", "B", "C", "D", "E", "F"})

ToNumber(v) ==
    IF v.t = "undefined" THEN "nan"
    ELSE IF v.t = "null" THEN "nonneg"
    ELSE LET s == TrimRight(TrimLeft(v.s))
             signed == Len(s) >= 1 /\ s[1] \in {"+", "-"}
             body == IF signed THEN Tail(s) ELSE s
         IN IF s = <<>> THEN "nonneg"
            ELSE IF HexLiteral(s) THEN "nonneg"
            ELSE IF ~UnsignedDecimal(body) THEN "nan"
            ELSE IF signed /\ s[1] = "-" /\ NonZero(body) THEN "neg"
            ELSE "nonneg"

(***************************************************************************)
(* The validator registry, lines 37 to 106                                 *)
(***************************************************************************)
\* the message of a result that sets none (positive, line 99: var msg)
NoMessage == "<undefined>"

Result(error, message) == [error |-> error, message |-> message]

email(value) == Result(~EmailRe(StringOf(value)), "Invalid email address")

required(value) ==
    LET r == /\ ~LooseEq(value, Str(<<>>))
             /\ ~StrictEq(value, Undefined)
             /\ ~StrictEq(value, Null)
    IN Result(~r, "Required")

string(value) ==
    IF Falsy(value) THEN Result(TRUE, "Empty value")
    ELSE Result(HasDigit(StringOf(value)), "Invalid value")

creditCard(value) ==
    IF Falsy(value) THEN Result(TRUE, "Empty value")
    ELSE LET matched == CreditCardRe(StringOf(value))
             result == IF ~matched /\ LooseEq(value, Str(TestCard))
                       THEN TRUE ELSE matched
         IN Result(~result, "Invalid credit card")

\* cvv without its test for an empty value; C9 tells it from cvv
cvv_Unguarded(value) == Result(~CvvRe(StringOf(value)), "Invalid CVV")

cvv(value) ==
    IF Falsy(value) THEN Result(TRUE, "Empty value")
    ELSE Result(~CvvRe(StringOf(value)), "Invalid CVV")

positive(value) ==
    LET v == ToNumber(value) IN
    IF v = "nan" \/ v = "neg" THEN Result(TRUE, "Invalid value")
    ELSE Result(FALSE, NoMessage)

(***************************************************************************)
(* Rule keys, and what service.validator[key] finds (line 144).  The       *)
(* registry is an object literal, so a key it does not own is looked up on *)
(* Object.prototype: toString and constructor are functions there, and     *)
(* __proto__ is Object.prototype itself.                                   *)
(***************************************************************************)
kEmail == <<"e", "m", "a", "i", "l">>
kRequired == <<"r", "e", "q", "u", "i", "r", "e", "d">>
kString == <<"s", "t", "r", "i", "n", "g">>
kCreditCard == <<"c", "r", "e", "d", "i", "t", "C", "a", "r", "d">>
kCvv == <<"c", "v", "v">>
kPositive == <<"p", "o", "s", "i", "t", "i", "v", "e">>
kToString == <<"t", "o", "S", "t", "r", "i", "n", "g">>
kConstructor == <<"c", "o", "n", "s", "t", "r", "u", "c", "t", "o", "r">>
kProto == <<"_", "_", "p", "r", "o", "t", "o", "_", "_">>
kFoo == <<"f", "o", "o">>
Comma == <<",">>

RuleNames == {kEmail, kRequired, kString, kCreditCard, kCvv, kPositive}
PrototypeFunctions == {kToString, kConstructor}

\* service.validator[key]: "validator" (one of the six own members),
\* "function" or "object" (inherited, both truthy), or "undefined"
Lookup(key) ==
    IF key \in RuleNames THEN "validator"
    ELSE IF key \in PrototypeFunctions THEN "function"
    ELSE IF key = kProto THEN "object"
    ELSE "undefined"

\* service.validator[key](value) for an own member
Apply(key, value) ==
    IF key = kEmail THEN email(value)
    ELSE IF key = kRequired THEN required(value)
    ELSE IF key = kString THEN string(value)
    ELSE IF key = kCreditCard THEN creditCard(value)
    ELSE IF key = kCvv THEN cvv(value)
    ELSE positive(value)

(***************************************************************************)
(* validateField, lines 130 to 154, as the record of one call:             *)
(*   outcome  "true" or "false" (the value returned) or "throw" (TypeError)*)
(*   message  the message handed to displayError when outcome is "false"   *)
(*   calls    the registry members invoked, in order, each with its        *)
(*            argument                                                     *)
(***************************************************************************)
Call(key, arg) == [key |-> key, arg |-> arg]
Outcome(outcome, message, calls) ==
    [outcome |-> outcome, message |-> message, calls |-> calls]

RECURSIVE RunRules(_, _, _)
\* the loop of lines 143 to 152, from index i on
RunRules(validations, i, value) ==
    IF i > Len(validations) THEN Outcome("true", NoMessage, <<>>)
    ELSE LET key == validations[i]
             found == Lookup(key)
         IN IF found = "undefined" THEN RunRules(validations, i + 1, value)
            ELSE IF found = "object" THEN Outcome("throw", NoMessage, <<>>)
            ELSE IF found = "function"
                 THEN LET rest == RunRules(validations, i + 1, value) IN
                      Outcome(rest.outcome, rest.message,
                              <<Call(key, value)>> \o rest.calls)
            ELSE LET result == Apply(key, value) IN
                 IF result.error
                 THEN Outcome("false", result.message, <<Call(key, value)>>)
                 ELSE LET rest == RunRules(validations, i + 1, value) IN
                      Outcome(rest.outcome, rest.message,
                              <<Call(key, value)>> \o rest.calls)

\* lines 135 to 139: the rule list, <<>> standing for a list left undefined
Validations(data, opt_validations) ==
    IF ~Falsy(opt_validations)
    THEN [defined |-> TRUE, list |-> Split(opt_validations.s, ",")]
    ELSE IF ~Falsy(data)
    THEN [defined |-> TRUE, list |-> Split(data.s, ",")]
    ELSE [defined |-> FALSE, list |-> <<>>]

\* lines 140 to 142
\* a value never taken for the placeholder; C7 tells it from Effective
Effective_Raw(val, placeholderAttr) == val

Effective(val, placeholderAttr) ==
    IF LooseEq(val, placeholderAttr) THEN Str(<<>>) ELSE val

\* the whole call: validations.length of an undefined list throws
ValidateFieldOn(val, placeholderAttr, data, opt_validations) ==
    LET validations == Validations(data, opt_validations) IN
    IF ~validations.defined THEN Outcome("throw", NoMessage, <<>>)
    ELSE RunRules(validations.list, 1, Effective(val, placeholderAttr))

(***************************************************************************)
(* The page: three fields in document order.  The first two are            *)
(* descendants of the element with id "form", the third is in no           *)
(* container.  No element has the id "nope".                               *)
(***************************************************************************)
MaxMarkers == 2

Fields == 1..3
InForm == {1, 2}
NoScope == "<undefined>"
Containers == {"form"}
Scopes == {NoScope, "nope"} \cup Containers
ContainerOf(f) == IF f \in InForm THEN "form" ELSE "<none>"

VARIABLES
    value,        \* el.val() of each field
    decl,         \* the data-validate attribute of each field, Undefined when absent
    placeholder,  \* the placeholder attribute of each field, Undefined when absent
    visible,      \* whether each field matches :visible
    markers,      \* for each field, the markers created for it that are displayed
                  \* or still have a handler bound, oldest first
    valid,        \* for each field, whether its most recent validation passed
    last,         \* the most recent call or event, and what it did
    applied       \* the most recent direct application of one validator

vars == <<value, decl, placeholder, visible, markers, valid, last, applied>>

(***************************************************************************)
(* displayError, lines 160 to 177.  A marker is a div of class             *)
(* validation-error inserted immediately before the field (line 163), so   *)
(* the markers of one field stand before it in the order of their          *)
(* creation; click is the one-shot handler of line 175 on the marker,      *)
(* focus the one-shot handler of line 176 on the field.  The offsets and   *)
(* margins of lines 164 to 172 place the marker and decide nothing else.   *)
(***************************************************************************)
Marker(msg) == [text |-> msg, inDom |-> TRUE, click |-> TRUE, focus |-> TRUE]

\* a marker put in place of the field's markers; C10 tells it from displayError
displayError_Replacing(ms, f, msg) == [ms EXCEPT ![f] = <<Marker(msg)>>]

displayError(ms, f, msg) == [ms EXCEPT ![f] = Append(@, Marker(msg))]

\* a removal that removes nothing; C3 tells it from RemoveOldErrors
RemoveOldErrors_Nothing(ms) == ms

\* $(".validation-error").remove() of line 122: jQuery's remove() takes each
\* marker out of the document together with the handlers bound to the marker
\* itself; the handler bound to the field stays bound
RemoveOldErrors(ms) ==
    [f \in Fields |->
        [k \in DOMAIN ms[f] |-> [ms[f][k] EXCEPT !.inDom = FALSE, !.click = FALSE]]]

\* the positions of the markers of field f that are displayed
DisplayedOn(ms, f) == {k \in DOMAIN ms[f] : ms[f][k].inDom}

RECURSIVE CountFrom(_, _)
CountFrom(ms, f) == IF f \notin Fields THEN 0 ELSE Len(ms[f]) + CountFrom(ms, f + 1)
\* the number of markers kept
Count(ms) == CountFrom(ms, 1)

(***************************************************************************)
(* validateField on a field of the page, and its effect on the markers     *)
(***************************************************************************)
FieldResult(f, r) ==
    [field |-> f, outcome |-> r.outcome, message |-> r.message, calls |-> r.calls]

validateFieldRun(f, opt_validations) ==
    FieldResult(f, ValidateFieldOn(Str(value[f]), placeholder[f], decl[f],
                                   opt_validations))

\* a marker for the field that passed; C4 tells it from AfterField
AfterField_Inverted(ms, r) ==
    IF r.outcome = "true" THEN displayError(ms, r.field, r.message) ELSE ms

\* line 148
AfterField(ms, r) ==
    IF r.outcome = "false" THEN displayError(ms, r.field, r.message) ELSE ms

(***************************************************************************)
(* validate, lines 114 to 129                                              *)
(***************************************************************************)
\* whether the selector of lines 116 to 119 matches field f: visible, with a
\* data-validate attribute, under #containerId when one is given
Matches(f, containerId) ==
    /\ decl[f].t = "string"
    /\ visible[f]
    /\ containerId # NoScope => ContainerOf(f) = containerId

RECURSIVE SelectFrom(_, _)
\* $(sel) of line 124: the matching fields in document order, from field f on
SelectFrom(f, containerId) ==
    IF f \notin Fields THEN <<>>
    ELSE (IF Matches(f, containerId) THEN <<f>> ELSE <<>>)
         \o SelectFrom(f + 1, containerId)

RECURSIVE Each(_, _)
\* the each() of lines 124 to 127 from index i on: the results of the fields
\* reached; a validateField that throws ends the loop and the call
Each(sel, i) ==
    IF i > Len(sel) THEN <<>>
    ELSE LET r == validateFieldRun(sel[i], Undefined) IN
         IF r.outcome = "throw" THEN <<r>>
         ELSE <<r>> \o Each(sel, i + 1)

Threw(results) == \E k \in 1..Len(results) : results[k].outcome = "throw"

\* what validate returns (line 128), or "throw"
Passed(results) ==
    IF Threw(results) THEN "throw"
    ELSE IF \A k \in 1..Len(results) : results[k].outcome = "true" THEN "true"
    ELSE "false"

RECURSIVE AfterEach(_, _, _)
AfterEach(ms, results, i) ==
    IF i > Len(results) THEN ms
    ELSE AfterEach(AfterField(ms, results[i]), results, i + 1)

(***************************************************************************)
(* The record of the most recent call or event                             *)
(***************************************************************************)
Event(op, f, scope, clear, opt, outcome, results, before, ran, prevented) ==
    [op |-> op, field |-> f, scope |-> scope, clear |-> clear, opt |-> opt,
     outcome |-> outcome, results |-> results,
     \* per field: the markers displayed before, and the markers kept before
     pre |-> [g \in Fields |-> DisplayedOn(before, g)],
     size |-> [g \in Fields |-> Len(before[g])],
     \* how often the dismissal handler of each marker of field f has run
     ran |-> ran,
     \* whether the submit click's default action was suppressed
     prevented |-> prevented]

NoMarkers == [f \in Fields |-> <<>>]

Idle(op) ==
    Event(op, 0, NoScope, FALSE, Undefined, "none", <<>>, NoMarkers, <<>>, FALSE)

NoProbe == [key |-> <<>>, arg |-> Undefined, result |-> Result(FALSE, NoMessage)]

(***************************************************************************)
(* Calls of the module's interface                                         *)
(***************************************************************************)
\* validateField(fieldElement, opt_validations)
validateField(f, opt_validations) ==
    LET r == validateFieldRun(f, opt_validations)
        after == AfterField(markers, r)
    IN /\ Count(after) <= MaxMarkers
       /\ markers' = after
       /\ last' = Event("validateField", f, NoScope, FALSE, opt_validations,
                        r.outcome, <<r>>, markers, <<>>, FALSE)
       /\ UNCHANGED <<value, decl, placeholder, visible, applied>>

\* the body of validate, shared with the submit click
validateRun(op, containerId, removeOldErrors, prevent) ==
    LET cleared == IF removeOldErrors THEN RemoveOldErrors(markers) ELSE markers
        results == Each(SelectFrom(1, containerId), 1)
        after == AfterEach(cleared, results, 1)
    IN /\ Count(after) <= MaxMarkers
       /\ markers' = after
       /\ last' = Event(op, 0, containerId, removeOldErrors, Undefined,
                        Passed(results), results, markers, <<>>,
                        prevent /\ Passed(results) = "false")
       /\ UNCHANGED <<value, decl, placeholder, visible, applied>>

\* validate(containerId, removeOldErrors)
validate(containerId, removeOldErrors) ==
    validateRun("validate", containerId, removeOldErrors, FALSE)

\* lines 180 to 184: a click on an element whose data-submitter names
\* containerId; validate is called without removeOldErrors
submitClick(containerId) ==
    /\ containerId # NoScope
    /\ validateRun("submit", containerId, FALSE, TRUE)

(***************************************************************************)
(* Events: removeMessageEvent (line 174) through its two bindings          *)
(***************************************************************************)
\* a focus event on a field with the markers fm: every one-shot focus
\* handler bound to the field runs once and is unbound; each removes its
\* marker (with the marker's click handler) and focuses the field again,
\* which finds no handler left
FocusDispatch(fm) ==
    [k \in DOMAIN fm |->
        IF fm[k].focus
        THEN [fm[k] EXCEPT !.inDom = FALSE, !.click = FALSE, !.focus = FALSE]
        ELSE fm[k]]

FocusRuns(fm) == [k \in DOMAIN fm |-> IF fm[k].focus THEN 1 ELSE 0]

RECURSIVE Keep(_, _)
\* the markers that are displayed or still have a handler bound somewhere
Keep(fm, k) ==
    IF k > Len(fm) THEN <<>>
    ELSE (IF fm[k].inDom \/ fm[k].click \/ fm[k].focus THEN <<fm[k]>> ELSE <<>>)
         \o Keep(fm, k + 1)

\* the user clicks the k-th marker of field f: its click handler runs,
\* removes the marker and focuses the field (line 174), and that focus event
\* runs the field's handlers, the one bound for this marker among them
clickMarker(f, k) ==
    /\ k \in DOMAIN markers[f]
    /\ markers[f][k].inDom
    /\ markers[f][k].click
    /\ LET removed == [markers[f] EXCEPT ![k].inDom = FALSE, ![k].click = FALSE]
           focused == FocusRuns(removed)
           ran == [j \in DOMAIN removed |-> focused[j] + (IF j = k THEN 1 ELSE 0)]
       IN /\ markers' = [markers EXCEPT ![f] = Keep(FocusDispatch(removed), 1)]
          /\ last' = Event("click", f, NoScope, FALSE, Undefined, "none", <<>>,
                           markers, ran, FALSE)
    /\ UNCHANGED <<value, decl, placeholder, visible, applied>>

\* field f receives focus while a handler of line 176 is bound to it (with
\* none bound, no code of the module runs)
focusField(f) ==
    /\ \E k \in DOMAIN markers[f] : markers[f][k].focus
    /\ markers' = [markers EXCEPT ![f] = Keep(FocusDispatch(markers[f]), 1)]
    /\ last' = Event("focus", f, NoScope, FALSE, Undefined, "none", <<>>,
                     markers, FocusRuns(markers[f]), FALSE)
    /\ UNCHANGED <<value, decl, placeholder, visible, applied>>

\* the value of field f changes to v
setValue(f, v) ==
    /\ value[f] # v
    /\ value' = [value EXCEPT ![f] = v]
    /\ last' = Idle("setValue")
    /\ UNCHANGED <<decl, placeholder, visible, markers, applied>>

\* one validator of the registry applied to one value
applyValidator(key, arg) ==
    /\ applied' = [key |-> key, arg |-> arg, result |-> Apply(key, arg)]
    /\ UNCHANGED <<value, decl, placeholder, visible, markers, last>>

(***************************************************************************)
(* Inputs                                                                  *)
(***************************************************************************)
vEmpty == <<>>
vSpace == <<" ">>
vZero == <<"0">>
vMinusOne == <<"-", "1">>
vMinusZero == <<"-", "0">>
vThreeFive == <<"3", ".", "5">>
vExp == <<"1", "e", "3">>
vHex == <<"0", "x", "1", "F">>
vAbc == <<"a", "b", "c">>
vAbc1 == <<"a", "b", "c", "1">>
vDigits3 == <<"1", "2", "3">>
vDigits4 == <<"1", "2", "3", "4">>
vDigits5 == <<"1", "2", "3", "4", "5">>
vPlaceholder == <<"E", "m", "a", "i", "l">>
vAddress == <<"a", "@", "b", ".", "c", "o">>
vDotted == <<"a", ".", "b", "@", "c", "-", "d", ".", "o", "r", "g">>
vQuoted == <<"\"", "a", " ", "b", "\"", "@", "[", "1", ".", "2", ".", "3", ".", "4", "]">>
vShortTld == <<"a", "@", "b", ".", "c">>
vTwoDots == <<"a", ".", ".", "b", "@", "c", ".", "d", "e">>
vNoLocal == <<"@", "b", ".", "c", "o">>
vAmex == <<"3", "4", "0", "0", "0", "0", "0", "0", "0", "0", "0", "0", "0", "0", "0">>
vVisa13 == <<"4", "0", "0", "0", "0", "0", "0", "0", "0", "0", "0", "0", "0">>
vMaster50 == <<"5", "0", "0", "0", "0", "0", "0", "0", "0", "0", "0", "0", "0", "0", "0", "0">>

\* the values handed to a validator directly
ProbeValues ==
    {Undefined, Null} \cup
    {Str(s) : s \in {vEmpty, vSpace, vZero, vMinusOne, vMinusZero, vThreeFive,
                     vExp, vHex, vAbc, vAbc1, vDigits3, vDigits4, vDigits5,
                     vPlaceholder, vAddress, vDotted, vQuoted, vShortTld,
                     vTwoDots, vNoLocal, TestCard, vAmex, vVisa13, vMaster50}}

\* the values a field of the page takes
PageValues == {vEmpty, vAddress}

\* the explicit rule lists of validateField on the page
PageRules == {Undefined, Str(kFoo)}

\* the data-validate attributes of the page
dRequiredEmail == kRequired \o Comma \o kEmail
PageDecls == {Undefined, Str(<<>>), Str(dRequiredEmail)}

\* the values, placeholders, data-validate attributes and explicit rule lists
\* of a single validateField call
FieldValues == {vEmpty, vSpace, vPlaceholder, vAddress, vMinusOne, vAbc1, vDigits4}
FieldPlaceholders == {Undefined, Str(vEmpty), Str(vPlaceholder)}
FieldDecls ==
    {Undefined, Str(<<>>), Str(dRequiredEmail),
     Str(kFoo \o Comma \o kString \o Comma \o kCvv)}
FieldRules ==
    {Undefined, Str(<<>>), Str(Comma),
     Str(kEmail \o Comma \o kRequired),
     Str(kFoo),
     Str(<<" ">> \o kRequired \o Comma \o kPositive),
     Str(kPositive \o Comma \o kFoo \o Comma \o kCreditCard),
     Str(kToString \o Comma \o kCvv),
     Str(kConstructor),
     Str(kProto \o Comma \o kRequired),
     Str(kRequired \o Comma \o kProto)}

\* a field that validate selects and whose rule list is not empty
Regular(d, v) == v /\ ~Falsy(d)

(***************************************************************************)
(* The page as the user and the caller drive it: at most one field, one of *)
(* the form, is hidden or has no rule list                                 *)
(***************************************************************************)
Init ==
    /\ value = [f \in Fields |-> vEmpty]
    /\ decl \in [Fields -> PageDecls]
    /\ placeholder = [f \in Fields |-> Undefined]
    /\ visible \in [Fields -> BOOLEAN]
    /\ \A f \in Fields : ~visible[f] => ~Falsy(decl[f])
    /\ \A f \in Fields \ InForm : Regular(decl[f], visible[f])
    /\ \A f, g \in Fields :
          ~Regular(decl[f], visible[f]) /\ ~Regular(decl[g], visible[g]) => f = g
    /\ markers = NoMarkers
    /\ valid = [f \in Fields |-> FALSE]
    /\ last = Idle("init")
    /\ applied = NoProbe

Next ==
    \/ \E f \in Fields, opt \in PageRules :
          validateField(f, opt) /\ UNCHANGED valid
    \/ \E containerId \in Scopes, removeOldErrors \in BOOLEAN :
          validate(containerId, removeOldErrors) /\ UNCHANGED valid
    \/ \E containerId \in Containers :
          submitClick(containerId) /\ UNCHANGED valid
    \/ \E f \in Fields, k \in 1..MaxMarkers :
          clickMarker(f, k) /\ UNCHANGED valid
    \/ \E f \in Fields : focusField(f) /\ UNCHANGED valid
    \/ \E f \in Fields, v \in PageValues : setValue(f, v) /\ UNCHANGED valid

Spec == Init /\ [][Next]_vars

(***************************************************************************)
(* The same page, every field regular, with the history of which field's   *)
(* most recent validation passed                                           *)
(***************************************************************************)
RECURSIVE Validity(_, _, _)
\* valid after the validations of results, from index i on
Validity(v, results, i) ==
    IF i > Len(results) THEN v
    ELSE Validity([v EXCEPT ![results[i].field] = (results[i].outcome = "true")],
                  results, i + 1)

InitTracked == Init /\ \A f \in Fields : Regular(decl[f], visible[f])

Track == valid' = Validity(valid, last'.results, 1)

NextTracked ==
    \/ \E f \in Fields, opt \in PageRules : validateField(f, opt) /\ Track
    \/ \E containerId \in Scopes, removeOldErrors \in BOOLEAN :
          validate(containerId, removeOldErrors) /\ Track
    \/ \E containerId \in Containers : submitClick(containerId) /\ Track
    \/ \E f \in Fields, k \in 1..MaxMarkers : clickMarker(f, k) /\ Track
    \/ \E f \in Fields : focusField(f) /\ Track
    \/ \E f \in Fields, v \in PageValues : setValue(f, v) /\ Track

SpecTracked == InitTracked /\ [][NextTracked]_vars

(***************************************************************************)
(* One validateField call on the first field of a fresh page, its value,   *)
(* placeholder, rule list and explicit rule list drawn from the inputs     *)
(***************************************************************************)
InitField ==
    /\ value \in [Fields -> FieldValues]
    /\ decl \in [Fields -> FieldDecls]
    /\ placeholder \in [Fields -> FieldPlaceholders]
    /\ \A f \in Fields \ {1} :
          value[f] = vEmpty /\ decl[f] = Undefined /\ placeholder[f] = Undefined
    /\ visible = [f \in Fields |-> TRUE]
    /\ markers = NoMarkers
    /\ valid = [f \in Fields |-> FALSE]
    /\ last = Idle("init")
    /\ applied = NoProbe

NextField ==
    /\ last.op = "init"
    /\ \E opt \in FieldRules : validateField(1, opt)
    /\ UNCHANGED valid

SpecField == InitField /\ [][NextField]_vars

(***************************************************************************)
(* The validators of the registry, each applied to each probe value        *)
(***************************************************************************)
InitValidators == InitTracked

NextValidators ==
    /\ \E key \in RuleNames, arg \in ProbeValues : applyValidator(key, arg)
    /\ UNCHANGED valid

SpecValidators == InitValidators /\ [][NextValidators]_vars

(***************************************************************************)
(* What the claims speak of, stated without the engine's own loop          *)
(***************************************************************************)
ValidationOps == {"validateField", "validate", "submit"}

\* the fields validate(scope) resolves: visible, annotated, under the scope
InScope(f, scope) ==
    /\ visible[f]
    /\ decl[f].t = "string"
    /\ scope = NoScope \/ (scope = "form" /\ f \in InForm)

\* the value a call on field f hands to the rules
EffectiveOf(f) ==
    IF placeholder[f].t = "string" /\ placeholder[f].s = value[f]
    THEN Str(<<>>)
    ELSE Str(value[f])

\* the positions of the registered rules of list that fail on value e
Failing(list, e) ==
    {i \in 1..Len(list) : list[i] \in RuleNames /\ Apply(list[i], e).error}

Least(S) == CHOOSE j \in S : \A i \in S : j <= i

IsRuleName(key) == key \in RuleNames

\* whether field f, validated with its own rule list, fails
FieldFails(f) == Failing(Split(decl[f].s, ","), EffectiveOf(f)) # {}

\* the markers the most recent call added to field f
Added(f) == Len(markers[f]) - last.size[f]

\* the result of field f in the most recent call, if it has one
ResultsOf(f) == {k \in DOMAIN last.results : last.results[k].field = f}

(***************************************************************************)
(* C1                                                                      *)
(***************************************************************************)
\* C1: for every rule list, validateField returns false iff a registered
\* rule of the list fails on the effective value; it then creates exactly
\* one marker on the field, with the message of the earliest failing
\* registered rule, and evaluates no rule after that one; when no registered
\* rule fails it returns true and creates no marker.
C1_FirstFailureReported ==
    last.op = "validateField" =>
        LET f == last.field
            r == last.results[1]
            vs == Validations(decl[f], last.opt)
            e == EffectiveOf(f)
            failing == Failing(vs.list, e)
        IN vs.defined =>
            /\ (r.outcome = "false") <=> (failing # {})
            /\ failing # {} =>
                  LET j == Least(failing) IN
                  /\ Added(f) = 1
                  /\ markers[f][Len(markers[f])].inDom
                  /\ markers[f][Len(markers[f])].text = Apply(vs.list[j], e).message
                  /\ [c \in DOMAIN r.calls |-> r.calls[c].key]
                        = SelectSeq(SubSeq(vs.list, 1, j), IsRuleName)
            /\ failing = {} => r.outcome = "true" /\ Added(f) = 0

(***************************************************************************)
(* C2                                                                      *)
(***************************************************************************)
\* C2: validate calls validateField on every visible annotated field of the
\* scope, in document order, also after a field has failed; every failing
\* field gets a marker of its own, and the value returned is true iff every
\* field's validateField returned true (true for an empty field set).
C2_ExhaustiveConjunction ==
    last.op \in {"validate", "submit"} =>
        LET rs == last.results IN
        /\ {rs[k].field : k \in DOMAIN rs} = {f \in Fields : InScope(f, last.scope)}
        /\ \A k \in 1..(Len(rs) - 1) : rs[k].field < rs[k + 1].field
        /\ \A k \in DOMAIN rs :
              /\ rs[k].outcome \in {"true", "false"}
              /\ rs[k].outcome = "false" =>
                    Added(rs[k].field) = 1
                    /\ markers[rs[k].field][Len(markers[rs[k].field])].inDom
        /\ last.outcome =
              (IF \A k \in DOMAIN rs : rs[k].outcome = "true" THEN "true" ELSE "false")

(***************************************************************************)
(* C3                                                                      *)
(***************************************************************************)
\* C3: after validate(scope, true) returns, whatever markers there were
\* before, the displayed markers are exactly one new marker on each failing
\* field of the scope and no other, and the call returned false iff a
\* marker is displayed.
C3_ClearedThenExactlyFailing ==
    (last.op = "validate" /\ last.clear /\ last.outcome # "throw") =>
        /\ \A f \in Fields :
              IF InScope(f, last.scope) /\ FieldFails(f)
              THEN Added(f) = 1 /\ DisplayedOn(markers, f) = {Len(markers[f])}
              ELSE DisplayedOn(markers, f) = {}
        /\ (last.outcome = "false") <=> (\E f \in Fields : DisplayedOn(markers, f) # {})

\* validate("form", true) has removed a marker of the field outside the form
\* and left one marker, on the failing field of the form, the other passing
C3_Witness ==
    /\ last.op = "validate" /\ last.clear /\ last.scope = "form"
    /\ last.outcome = "false"
    /\ last.pre[3] # {}
    /\ \E k \in DOMAIN last.results : last.results[k].outcome = "true"
    /\ \E f \in InForm : Added(f) = 1 /\ DisplayedOn(markers, f) = {Len(markers[f])}
    /\ DisplayedOn(markers, 3) = {}

(***************************************************************************)
(* C4                                                                      *)
(***************************************************************************)
\* C4 as claimed: in every reachable state a field whose most recent
\* validation passed carries no marker.
C4_NoValidMarker == \A f \in Fields : valid[f] => DisplayedOn(markers, f) = {}

\* C4 as amended: a passing validation adds no marker to the field and
\* validate with removeOldErrors leaves none on it, so a field whose most
\* recent validation passed carries only markers displayed before that
\* validation and neither dismissed nor cleared since.
C4_PassingAddsNoMarker ==
    [][\A f \in Fields :
          valid'[f] =>
             /\ Cardinality(DisplayedOn(markers', f))
                   <= Cardinality(DisplayedOn(markers, f))
             /\ (last'.op = "validate" /\ last'.clear) => DisplayedOn(markers', f) = {}
      ]_vars

\* a field has just passed validateField and still shows an older marker
C4_Witness ==
    /\ last.op = "validateField"
    /\ last.outcome = "true"
    /\ valid[last.field]
    /\ DisplayedOn(markers, last.field) # {}

(***************************************************************************)
(* C5                                                                      *)
(***************************************************************************)
\* C5: for a key that is none of the six rule names validateField raises
\* nothing and evaluates nothing, so a rule list has the outcome (value
\* returned and message) of the same list without its unknown keys.
C5_UnknownKeysSkipped ==
    last.op = "validateField" =>
        LET f == last.field
            r == last.results[1]
            vs == Validations(decl[f], last.opt)
            known == RunRules(SelectSeq(vs.list, IsRuleName), 1, EffectiveOf(f))
        IN vs.defined =>
            /\ r.outcome # "throw"
            /\ \A c \in DOMAIN r.calls : r.calls[c].key \in RuleNames
            /\ r.outcome = known.outcome
            /\ r.message = known.message

(***************************************************************************)
(* C6                                                                      *)
(***************************************************************************)
\* C6: a field validated without explicit rules whose rule declaration is
\* absent or empty passes: no rule is evaluated, validateField returns true,
\* no marker is created, nothing is raised, and validate goes on to the
\* remaining fields of the scope.
C6_MissingRuleListPasses ==
    /\ \A k \in DOMAIN last.results :
          LET r == last.results[k] IN
          (Falsy(last.opt) /\ Falsy(decl[r.field])) =>
              r.outcome = "true" /\ r.calls = <<>> /\ Added(r.field) = 0
    /\ last.op \in {"validate", "submit"} =>
          \A f \in Fields : InScope(f, last.scope) => ResultsOf(f) # {}

(***************************************************************************)
(* C7                                                                      *)
(***************************************************************************)
\* C7: when the field's value is the same string as its placeholder,
\* validateField evaluates every rule against the empty string and ends as
\* it would with the value ""; otherwise every rule is evaluated against the
\* value as it is; the field's value is not changed.
C7_PlaceholderSuppression ==
    [][last'.op = "validateField" =>
          LET f == last'.field
              r == last'.results[1]
              e == EffectiveOf(f)
              plain == ValidateFieldOn(e, Undefined, decl[f], last'.opt)
          IN /\ \A c \in DOMAIN r.calls : r.calls[c].arg = e
             /\ r.outcome = plain.outcome
             /\ r.message = plain.message
             /\ value' = value
      ]_vars

\* a value equal to the placeholder has failed required
C7_Witness ==
    /\ last.op = "validateField"
    /\ placeholder[1] = Str(vPlaceholder)
    /\ value[1] = vPlaceholder
    /\ last.outcome = "false"
    /\ last.results[1].message = "Required"
    /\ last.results[1].calls = <<Call(kRequired, Str(vEmpty))>>

(***************************************************************************)
(* C8                                                                      *)
(***************************************************************************)
\* C8: the dismissal handler of a marker runs at most once over the marker's
\* life, whichever trigger fires first, and once the marker is removed no
\* handler for it stays bound to the marker or to the field.
C8_OneShotNoLeak ==
    /\ \A k \in DOMAIN last.ran : last.ran[k] <= 1
    /\ \A f \in Fields : \A k \in DOMAIN markers[f] :
          ~markers[f][k].inDom => ~markers[f][k].click /\ ~markers[f][k].focus

(***************************************************************************)
(* C9                                                                      *)
(***************************************************************************)
\* C9 as claimed: every failing input of a rule yields the same message,
\* which no failing input of another rule yields.
C9_FixedDistinctMessages ==
    (applied.key # <<>> /\ applied.result.error) =>
        \A key \in RuleNames, arg \in ProbeValues :
            Apply(key, arg).error =>
                ((Apply(key, arg).message = applied.result.message)
                    <=> (key = applied.key))

\* the message of each rule for an input that is not falsy
RuleMessage(key) ==
    IF key = kEmail THEN "Invalid email address"
    ELSE IF key = kRequired THEN "Required"
    ELSE IF key = kCreditCard THEN "Invalid credit card"
    ELSE IF key = kCvv THEN "Invalid CVV"
    ELSE "Invalid value"

\* C9 as amended: every validator returns a result with a boolean error; a
\* failing result's message is "Empty value" when the rule is string,
\* creditCard or cvv and the input is falsy, and otherwise the rule's own
\* message, which string and positive share ("Invalid value").
C9_MessageByRuleAndEmptiness ==
    applied.key # <<>> =>
        /\ applied.result.error \in BOOLEAN
        /\ applied.result.error =>
              applied.result.message =
                  (IF applied.key \in {kString, kCreditCard, kCvv} /\ Falsy(applied.arg)
                   THEN "Empty value"
                   ELSE RuleMessage(applied.key))

\* cvv has failed on null with the message it shares with string and creditCard
C9_Witness ==
    /\ applied.key = kCvv
    /\ applied.arg = Null
    /\ applied.result = Result(TRUE, "Empty value")

(***************************************************************************)
(* C10                                                                     *)
(***************************************************************************)
\* C10: validateField, and validate without removeOldErrors (the submit
\* click among its callers), remove no marker and add exactly one marker to
\* each validated field that fails and none elsewhere; the markers of a
\* field that keeps failing pile up.
C10_MarkersOnlyGrow ==
    (last.op \in {"validateField", "submit"} \/ (last.op = "validate" /\ ~last.clear)) =>
        \A f \in Fields :
            LET failed == \E k \in ResultsOf(f) : last.results[k].outcome = "false" IN
            /\ Added(f) = (IF failed THEN 1 ELSE 0)
            /\ \A k \in 1..last.size[f] :
                  markers[f][k].inDom <=> (k \in last.pre[f])
            /\ \A k \in (last.size[f] + 1)..Len(markers[f]) : markers[f][k].inDom

\* the submit click has put a second marker on a field that already had one
C10_Witness ==
    /\ last.op = "submit"
    /\ \E f \in InForm : last.pre[f] = {1} /\ DisplayedOn(markers, f) = {1, 2}

====
